---------------------------- MODULE Spec2Model ----------------------------
(* A model of openevolve's container sandbox (src/openevolve/sandbox.py)  *)
(* and of its sampler (src/openevolve/sampler.py).                        *)
(*                                                                        *)
(* One process is modelled.  Every public operation is one action, the    *)
(* shell commands it issues are appended to the log cmds in the order the *)
(* code issues them, and the host (which engines are installed, the state *)
(* of the sandbox container in each engine, the temporary directories) is *)
(* part of the state.                                                     *)
EXTENDS Naturals, Integers, Sequences, FiniteSets, Bags, TLC

(* ------------------------------ bounds ------------------------------- *)

\* API calls made on the sandbox classes in one process.
MaxCalls == 2

\* Test cases handed to one upload_test_cases call.
MaxCases == 2

\* sample() calls made on the sampler.
MaxSamples == 2

\* The largest samples_per_prompt a model client is configured with.
MaxBatch == 2

\* execute() and run() calls made on one sandbox instance.
MaxRuns == 2

\* Sampler instances running sample() at the same time, one thread each.
NumWorkers == 2

\* sample() calls each of these threads makes.
MaxWorkerCalls == 1

\* Threads that construct one sandbox each at the same time.
NumThreads == 2

(* ------------------------------- state ------------------------------- *)

VARIABLES
    sandboxes,   \* DummySandbox.sandboxes, the process-wide instance counter
    engine,      \* ContainerSandbox.engine, the pinned container engine
    avail,       \* host: the engines whose executable runs
    up,          \* host: the engines whose commands reach a working service
    container,   \* host: per engine, the container named SANDBOX_CONTAINER_NAME
    image,       \* host: the engines whose store holds SANDBOX_IMAGE_NAME
    hostfs,      \* host: the staging directories and the files in them
    cmds,        \* the shell commands issued so far, in order
    ctors,       \* the ContainerSandbox constructions so far, in order
    selects,     \* the direct select_engine calls so far, in order
    uploads,     \* the upload_test_cases calls so far, in order
    calls        \* the number of API calls made so far

sandboxVars == <<sandboxes, engine, avail, up, container, image, hostfs, cmds,
                 ctors, selects, uploads, calls>>

VARIABLES
    uid,                \* Sampler.uid
    samples_per_prompt, \* the model client's batch size
    generation_number,  \* Sampler.generation_number
    analysed,           \* the analyse calls made so far, in order
    samples             \* the sample() calls so far, in order

samplerVars == <<uid, samples_per_prompt, generation_number, analysed,
                 samples>>

VARIABLES
    cfs,         \* container: the output artifacts, path -> content
    execs,       \* the execute() calls so far, in order
    runs         \* the run() calls so far, in order

runVars == <<cfs, execs, runs>>

VARIABLES
    workers,     \* per thread: its Sampler's fields and its place in sample()
    dispatched   \* the analyse calls the threads made so far, a bag

workerVars == <<workers, dispatched>>

VARIABLES
    threads      \* per constructing thread: its place in __init__, the
                 \* local sandbox_id of register_sandbox and the executable
                 \* of the command line it wrote

threadVars == <<threads>>

vars == <<sandboxVars, samplerVars, runVars, workerVars, threadVars>>

\* class ContainerEngine(StrEnum)
ContainerEngine == {"podman", "docker"}

\* DEFAULT_CONTAINER_ENGINE = ContainerEngine.DOCKER
DEFAULT_CONTAINER_ENGINE == "docker"

\* The states of the named container in one engine's store; new tells a
\* container created by this process from one that was there before.
NoContainer == [st |-> "none", new |-> FALSE]

ContainerStates ==
    {NoContainer, [st |-> "stopped", new |-> FALSE],
     [st |-> "running", new |-> FALSE]}

(* --------------------------- shell commands -------------------------- *)

\* The part of the state a method of the sandbox reads and writes: the
\* pinned engine, the host's containers and images and the command log.
World(e, c, i, l) ==
    [engine |-> e, container |-> c, image |-> i, cmds |-> l]

\* executable: the pinned engine's command name.
executable(w) == w.engine

\* os.system / os.popen of "<exe> <op> ...": the command is logged with its
\* exit status and acts on the host.  `<exe> --version` needs the
\* executable only; every other command also needs the engine's service
\* (for docker, the daemon) to answer.  buildOk is whether the command does
\* its own work once the engine runs it: the Dockerfile and the build
\* context make an image, the driver exits with status 0, the file to copy
\* out is in the container.
Shell(w, exe, op, at, buildOk) ==
    LET here == exe \in avail
        live == exe \in up
        c    == w.container[exe]
        ok   == CASE ~here           -> FALSE
                  [] op = "version"  -> TRUE
                  [] ~live           -> FALSE
                  [] op = "ls"       -> TRUE
                  [] op = "image_ls" -> TRUE
                  [] op = "rm"       -> c.st # "none"
                  [] op = "build"    -> buildOk
                  [] op = "create"   -> c.st = "none" /\ exe \in w.image
                  [] op = "start"    -> c.st # "none"
                  [] op = "cp_in"    -> c.st # "none"
                  [] op = "mkdir"    -> c.st = "running"
                  [] op = "exec"     -> c.st = "running" /\ buildOk
                  [] op = "cp_out"   -> c.st # "none" /\ buildOk
                  [] OTHER           -> FALSE
        c2   == CASE ~ok             -> c
                  [] op = "rm"       -> NoContainer
                  [] op = "create"   -> [st |-> "stopped", new |-> TRUE]
                  [] op = "start"    -> [c EXCEPT !.st = "running"]
                  [] OTHER           -> c
        \* a build that succeeds leaves the image in the engine's store
        i2   == IF op = "build" /\ here /\ live /\ buildOk
                  THEN w.image \cup {exe}
                  ELSE w.image
        \* `container ls` lists the running containers only; `image ls`
        \* lists the image when the engine's store holds it
        out  == /\ here /\ live
                /\ \/ op = "ls" /\ c.st = "running"
                   \/ op = "image_ls" /\ exe \in w.image
    IN  [w   |-> [w EXCEPT !.container[exe] = c2,
                           !.image = i2,
                           !.cmds = Append(w.cmds,
                               [op |-> op, exe |-> exe, ok |-> ok, out |-> out,
                                at |-> at])],
         ok  |-> ok,
         out |-> out]

(* ------------------------- engine selection -------------------------- *)

\* has_engine(engine): os.system(f"{engine.value} --version") == 0
has_engine(w, e, at) == Shell(w, e, "version", at, TRUE)

\* use_engine(engine): cls.engine = engine
use_engine(w, e) == [w EXCEPT !.engine = e]

\* Mutant: podman is probed and preferred before docker.
select_engine_podman_first(w, at) ==
    LET p == has_engine(w, "podman", at)
        d == has_engine(p.w, "docker", at)
    IN  IF p.ok THEN [w |-> use_engine(p.w, "podman"), ret |-> "podman"]
        ELSE IF d.ok THEN [w |-> use_engine(d.w, "docker"), ret |-> "docker"]
        ELSE [w |-> d.w, ret |-> "raise"]

\* select_engine(): docker, else podman, else raise Exception.
\* Returns the world after it and the engine returned ("raise" for the
\* exception).
select_engine(w, at) ==
    LET d == has_engine(w, "docker", at)
        p == has_engine(d.w, "podman", at)
    IN  IF d.ok THEN [w |-> use_engine(d.w, "docker"), ret |-> "docker"]
        ELSE IF p.ok THEN [w |-> use_engine(p.w, "podman"), ret |-> "podman"]
        ELSE [w |-> p.w, ret |-> "raise"]

(* ---------------------------- provisioning --------------------------- *)

\* image_exists(): bool(`<exe> image ls SANDBOX_IMAGE_NAME -q`)
image_exists(w, at) == Shell(w, executable(w), "image_ls", at, TRUE)

\* container_exists(): SANDBOX_CONTAINER_NAME in `<exe> container ls`
container_exists(w, at) == Shell(w, executable(w), "ls", at, TRUE)

\* remove_container(): `rm -f` when container_exists()
remove_container(w, at) ==
    LET ex == container_exists(w, at)
    IN  IF ex.out THEN Shell(ex.w, executable(ex.w), "rm", at, TRUE).w
        ELSE ex.w

\* Mutant: the exit status of the build command is not looked at.
build_image_unchecked(w, at, buildOk) ==
    LET s == select_engine(w, at)
        b == Shell(s.w, executable(s.w), "build", at, buildOk)
    IN  IF s.ret = "raise" THEN [w |-> s.w, err |-> "Exception:no_engine"]
        ELSE [w |-> b.w, err |-> "none"]

\* build_image(): select_engine(), then the build command; a non-zero exit
\* raises RuntimeError.
build_image(w, at, buildOk) ==
    LET s == select_engine(w, at)
        b == Shell(s.w, executable(s.w), "build", at, buildOk)
    IN  IF s.ret = "raise" THEN [w |-> s.w, err |-> "Exception:no_engine"]
        ELSE IF ~b.ok THEN [w |-> b.w, err |-> "RuntimeError:build"]
        ELSE [w |-> b.w, err |-> "none"]

\* create_container(): the exit status is not looked at
create_container(w, at) == Shell(w, executable(w), "create", at, TRUE).w

\* start_container(): the exit status is not looked at
start_container(w, at) == Shell(w, executable(w), "start", at, TRUE).w

(* ---------------------------- construction --------------------------- *)

\* What __init__ reads of the evaluation entry point and the setup script
\* on the host: Path.exists(), Path.is_file(), Path.suffix.
EvalFiles ==
    {f \in [exists : BOOLEAN, is_file : BOOLEAN, suffix : {".py", ".txt"}] :
        f.is_file => f.exists}

SetupFiles ==
    {[given |-> FALSE, is_file |-> FALSE, suffix |-> ""]} \cup
    [given : {TRUE}, is_file : BOOLEAN, suffix : {".sh", ".txt"}]

CtorArgs == [eval : EvalFiles, setup : SetupFiles, force : BOOLEAN]

\* The three input checks of __init__, in the order of the code.
ValidationError(a) ==
    IF a.setup.given /\ (~a.setup.is_file \/ a.setup.suffix # ".sh")
      THEN "ValueError:setup_file"
    ELSE IF ~a.eval.is_file \/ a.eval.suffix # ".py"
      THEN "ValueError:eval_file"
    ELSE IF ~a.eval.exists
      THEN "FileNotFoundError:eval_file"
    ELSE "none"

\* Mutant: the identifier is handed out and the counter is left as it was.
register_sandbox_no_increment(n) == [id |-> n, next |-> n]

\* register_sandbox(): the identifier handed out for counter value n
register_sandbox(n) == [id |-> n, next |-> n + 1]

\* Mutant: the gate on the identifier is dropped, every instance provisions.
ReusesContainer_never(id) == FALSE

\* `if self.sandbox_id != 0: return`
ReusesContainer(id) == id # 0

\* Mutant: a container that is reported as existing is not started.
Provision_existing_not_started(w, a, at, buildOk) ==
    LET ex   == IF a.force THEN [w |-> w, out |-> FALSE]
                ELSE container_exists(w, at)
        need == a.force \/ ~ex.out
        r    == remove_container(ex.w, at)
        b    == build_image(r, at, buildOk)
        c    == create_container(b.w, at)
    IN  IF ~need THEN [w |-> ex.w, err |-> "none"]
        ELSE IF b.err # "none" THEN [w |-> b.w, err |-> b.err]
        ELSE [w |-> start_container(c, at), err |-> "none"]

\* The provisioning part of __init__ (instance 0, valid inputs).
Provision(w, a, at, buildOk) ==
    LET ex   == IF a.force THEN [w |-> w, out |-> FALSE]
                ELSE container_exists(w, at)
        need == a.force \/ ~ex.out
        r    == remove_container(ex.w, at)
        b    == build_image(r, at, buildOk)
        c    == create_container(b.w, at)
    IN  IF ~need THEN [w |-> start_container(ex.w, at), err |-> "none"]
        ELSE IF b.err # "none" THEN [w |-> b.w, err |-> b.err]
        ELSE [w |-> start_container(c, at), err |-> "none"]

\* Mutant: the inputs are checked after provisioning instead of before.
ContainerSandbox_init_validate_last(w, id, a, at, buildOk) ==
    LET v == ValidationError(a)
        p == IF ReusesContainer(id) THEN [w |-> w, err |-> "none"]
             ELSE Provision(w, a, at, buildOk)
    IN  IF p.err # "none" THEN p
        ELSE IF v # "none" THEN [w |-> p.w, err |-> v]
        ELSE p

\* ContainerSandbox.__init__: the world after it and the error it raised.
ContainerSandbox_init(w, id, a, at, buildOk) ==
    LET v == ValidationError(a)
    IN  IF v # "none" THEN [w |-> w, err |-> v]
        ELSE IF ReusesContainer(id) THEN [w |-> w, err |-> "none"]
        ELSE Provision(w, a, at, buildOk)

(* ------------------------------ upload ------------------------------- *)

\* tempfile.mkdtemp(): a new empty directory
mkdtemp(fs, d) == [fs EXCEPT !.dirs = @ \cup {d}]

\* shutil.rmtree(temp_dir): the directory and everything in it
rmtree(fs, d) ==
    [dirs |-> fs.dirs \ {d}, files |-> {f \in fs.files : f[1] # d}]

\* The loop of upload_test_cases over n test cases; the pickle.dump of test
\* case number bad (counted from 1; 0: none) raises.  Test case i is staged
\* as file i-1.
Stage(fs, d, n, bad) ==
    LET last == IF bad = 0 THEN n ELSE bad
    IN  [fs EXCEPT !.files = @ \cup {<<d, i - 1>> : i \in 1..last}]

\* Mutant: the directory is removed after the copy, not in a finally block.
upload_test_cases_no_finally(w, fs, d, n, bad, at) ==
    LET fs1 == mkdtemp(fs, d)
        fs2 == Stage(fs1, d, n, bad)
        cp  == Shell(w, executable(w), "cp_in", at, TRUE)
    IN  IF bad # 0
          THEN [fs |-> fs2, w |-> w, raised |-> TRUE, cp |-> "none"]
          ELSE [fs |-> rmtree(fs2, d), w |-> cp.w, raised |-> FALSE,
                cp |-> IF cp.ok THEN "ok" ELSE "failed"]

\* upload_test_cases(test_cases): the host file system after it, the world
\* after it, and whether it raised.
upload_test_cases(w, fs, d, n, bad, at) ==
    LET fs1 == mkdtemp(fs, d)
        fs2 == Stage(fs1, d, n, bad)
        cp  == Shell(w, executable(w), "cp_in", at, TRUE)
    IN  IF bad # 0
          THEN [fs |-> rmtree(fs2, d), w |-> w, raised |-> TRUE, cp |-> "none"]
          ELSE [fs |-> rmtree(fs2, d), w |-> cp.w, raised |-> FALSE,
                cp |-> IF cp.ok THEN "ok" ELSE "failed"]

(* ------------------------------ sampler ------------------------------ *)

\* The uids samplers are made with, the evaluator pool and the islands of
\* the prompts.
Uids == {0, 12}

Evaluators == {"ev1", "ev2"}

Islands == {0, 1}

DecimalDigits == <<"0", "1", "2", "3", "4", "5", "6", "7", "8", "9">>

\* str(n) of a non-negative int: its decimal digits, as a sequence of
\* characters.
RECURSIVE str(_)
str(n) ==
    IF n < 10 THEN <<DecimalDigits[n + 1]>>
    ELSE Append(str(n \div 10), DecimalDigits[(n % 10) + 1])

\* Mutant: the run identifier is computed after the increment.
curr_id_after_increment(u, g) == str(u) \o <<"_">> \o str(g + 1)

\* Mutant: the run identifier is made of the generation number alone.
curr_id_without_uid(u, g) == <<"_">> \o str(g)

\* curr_id = str(self.uid) + "_" + str(self.generation_number)
curr_id(u, g) == str(u) \o <<"_">> \o str(g)

\* The number of passes of `for sample in samples` that start: all of the
\* batch, or, when the analyse call of pass failAt raises, the passes up to
\* that one.
Passes(batch, failAt) == IF failAt = 0 THEN batch ELSE failAt

\* Mutant: every candidate is sent with island 0, not the prompt's island.
Dispatch_island_zero(u, g, k, call, island, ev, failAt) ==
    [run_id    |-> curr_id(u, g),
     sample    |-> <<call, k>>,
     island_id |-> 0,
     evaluator |-> ev,
     raised    |-> (failAt = k),
     call      |-> call]

\* One pass of the loop, the k-th of this call, entered with
\* generation_number g: the analyse call it makes.
Dispatch(u, g, k, call, island, ev, failAt) ==
    [run_id    |-> curr_id(u, g),
     sample    |-> <<call, k>>,
     island_id |-> island,
     evaluator |-> ev,
     raised    |-> (failAt = k),
     call      |-> call]

\* The loop of sample() over the batch and the average after it: the
\* analyse calls made, generation_number after them and the error raised.
\* failAt: the pass whose analyse call raises (0: none); picks: the evaluator
\* np.random.choice returns in each pass.
sample_loop(u, g, batch, call, island, picks, failAt) ==
    LET n    == Passes(batch, failAt)
        sent == [k \in 1..n |->
                    Dispatch(u, g + (k - 1), k, call, island, picks[k], failAt)]
    IN  IF failAt # 0 THEN [sent |-> sent, gen |-> g + n, err |-> "analyse"]
        \* avg_eval_time = sum(eval_times) / len(eval_times)
        ELSE IF batch = 0
          THEN [sent |-> sent, gen |-> g + n, err |-> "ZeroDivisionError"]
        ELSE [sent |-> sent, gen |-> g + n, err |-> "none"]

\* Mutant: a failed get_prompt or draw_samples resets generation_number.
sample_reset_on_abort(u, g, batch, call, island, picks, promptOk, drawOk, failAt) ==
    IF ~promptOk THEN [sent |-> <<>>, gen |-> 0, err |-> "get_prompt"]
    ELSE IF ~drawOk THEN [sent |-> <<>>, gen |-> 0, err |-> "draw_samples"]
    ELSE sample_loop(u, g, batch, call, island, picks, failAt)

\* sample(): the analyse calls it makes, generation_number after it and the
\* error it raises.  promptOk, drawOk: get_prompt and draw_samples return.
sample(u, g, batch, call, island, picks, promptOk, drawOk, failAt) ==
    IF ~promptOk THEN [sent |-> <<>>, gen |-> g, err |-> "get_prompt"]
    ELSE IF ~drawOk THEN [sent |-> <<>>, gen |-> g, err |-> "draw_samples"]
    ELSE sample_loop(u, g, batch, call, island, picks, failAt)

(* -------------------------- execute and run -------------------------- *)

\* Text is a sequence of characters; a path is the sequence of its
\* components, each a text.

\* The implementation identifiers and test identifiers handed to execute:
\* "a", "a/b" and "./a".
ImplIds == {<<"a">>, <<"a", "/", "b">>, <<".", "/", "a">>}

TestIds == {0, 1}

\* The in-container roots of the inputs, the outputs and the logs.
CONTAINER_INPUTS_PATH == << <<"i", "n">> >>

CONTAINER_OUTPUTS_PATH == << <<"o", "u", "t">> >>

CONTAINER_LOGS_PATH == << <<"l", "o", "g", "s">> >>

\* A component as pathlib keeps it: empty components and "." are dropped.
KeepPart(c) == IF c = <<>> \/ c = <<".">> THEN <<>> ELSE <<c>>

\* The components of the text s from position i on, cur being the
\* component read so far.
RECURSIVE SplitPath(_, _, _)
SplitPath(s, i, cur) ==
    IF i > Len(s) THEN KeepPart(cur)
    ELSE IF s[i] = "/" THEN KeepPart(cur) \o SplitPath(s, i + 1, <<>>)
    ELSE SplitPath(s, i + 1, Append(cur, s[i]))

\* base / s of pathlib: an absolute s replaces base.
JoinPath(base, s) ==
    IF s # <<>> /\ s[1] = "/" THEN SplitPath(s, 1, <<>>)
    ELSE base \o SplitPath(s, 1, <<>>)

DotPickle == <<".", "p", "i", "c", "k", "l", "e">>

\* inputs_filepath = CONTAINER_INPUTS_PATH / f"{test_id}.pickle"
inputs_filepath(t) == JoinPath(CONTAINER_INPUTS_PATH, str(t) \o DotPickle)

\* Mutant: the output file is named by the implementation alone.
outputs_filepath_no_test(impl, t) ==
    JoinPath(CONTAINER_OUTPUTS_PATH,
             impl \o <<"/", "o", "u", "t", "p", "u", "t">> \o DotPickle)

\* outputs_filepath =
\*     CONTAINER_OUTPUTS_PATH / f"{implementation_id}/output_{test_id}.pickle"
outputs_filepath(impl, t) ==
    JoinPath(CONTAINER_OUTPUTS_PATH,
             impl \o <<"/", "o", "u", "t", "p", "u", "t", "_">> \o str(t)
                  \o DotPickle)

\* log_dir = CONTAINER_LOGS_PATH / implementation_id / f"test_{test_id}"
log_dir(impl, t) ==
    JoinPath(JoinPath(CONTAINER_LOGS_PATH, impl),
             <<"t", "e", "s", "t", "_">> \o str(t))

\* The bytes of a file are given as the opcodes pickle reads them as, each
\* with its argument where the outcome of loading depends on it: PROTO has
\* the protocol number, FRAME the number of the opcodes that follow which
\* its length covers.
Opcode(op) == [op |-> op, arg |-> 0]

PROTO(version) == [op |-> "PROTO", arg |-> version]

FRAME(n) == [op |-> "FRAME", arg |-> n]

\* pickle.HIGHEST_PROTOCOL
HIGHEST_PROTOCOL == 5

\* What the driver leaves in the output file: nothing, or bytes.  OBJ
\* stands for the opcodes that build an EvalResult, NONE is the opcode that
\* pushes None, and CUT is an opcode whose argument the end of the file cuts
\* short.  The files are, of the framed default protocol: a whole pickle of
\* an EvalResult and one of None; a pickle that ends inside its frame; one
\* that ends where its frame ends, the STOP missing (a dump interrupted
\* between two writes); of the unframed protocol 2: a pickle that ends
\* between two opcodes and one that ends inside an opcode; a byte that is
\* no opcode; the text "garbage", whose g is the opcode GET with an
\* argument that is no number; an unknown protocol number; and whole
\* framed pickles that name a module that cannot be imported, name an
\* attribute the module does not have, call a callable with arguments it
\* does not take, hold text that is not UTF-8, and announce more bytes
\* than can be allocated.
Pickles ==
    {<<PROTO(4), FRAME(2), Opcode("OBJ"), Opcode("STOP")>>,
     <<PROTO(4), FRAME(2), Opcode("NONE"), Opcode("STOP")>>,
     <<PROTO(4), FRAME(2), Opcode("OBJ")>>,
     <<PROTO(4), FRAME(1), Opcode("OBJ")>>,
     <<PROTO(2), Opcode("OBJ")>>,
     <<PROTO(2), Opcode("CUT")>>,
     <<Opcode("?")>>,
     <<Opcode("GET_no_number")>>,
     <<PROTO(255)>>,
     <<PROTO(4), FRAME(2), Opcode("GLOBAL_no_module"), Opcode("STOP")>>,
     <<PROTO(4), FRAME(2), Opcode("GLOBAL_no_attribute"), Opcode("STOP")>>,
     <<PROTO(4), FRAME(2), Opcode("REDUCE_bad_arguments"), Opcode("STOP")>>,
     <<PROTO(4), FRAME(2), Opcode("UNICODE_bad_utf8"), Opcode("STOP")>>,
     <<PROTO(4), FRAME(2), Opcode("BINBYTES_too_long"), Opcode("STOP")>>}

\* The exit statuses of the driver's shell: success and a failure.
DriverExits == {0, 1}

\* What the driver does when it runs: what it writes and how it exits.
DriverOutcomes ==
    [writes : {FALSE}, data : {<<>>}, exit : DriverExits] \cup
    [writes : {TRUE}, data : Pickles, exit : DriverExits]

\* The value os.system returns for the exec command: the wait status of
\* the shell, which is 127 when the executable is not found, the engine's
\* own status 1 when the container cannot run the command, and else the
\* driver's.
ExecStatus(exe, ran, drv) ==
    IF exe \notin avail THEN 127 * 256
    ELSE IF ~ran THEN 256
    ELSE drv.exit * 256

\* The container's files with content data at path p.
WriteFile(cf, p, data) ==
    [q \in DOMAIN cf \cup {p} |-> IF q = p THEN data ELSE cf[q]]

\* Mutant: a failed mkdir command ends execute() with that command's status.
execute_stop_on_mkdir_failure(w, cf, impl, t, at, drv) ==
    LET out    == outputs_filepath(impl, t)
        logs   == log_dir(impl, t)
        mk     == Shell(w, executable(w), "mkdir", at, TRUE)
        exe    == executable(mk.w)
        ran    == exe \in up /\ mk.w.container[exe].st = "running"
        x      == Shell(mk.w, exe, "exec", at, drv.exit = 0)
    IN  IF ~mk.ok
          THEN [w |-> mk.w, cf |-> cf, inp |-> inputs_filepath(t),
                out |-> out, logs |-> logs,
                ret |-> IF exe \in avail THEN 256 ELSE 127 * 256]
          ELSE [w    |-> x.w,
                cf   |-> IF ran /\ drv.writes THEN WriteFile(cf, out, drv.data)
                         ELSE cf,
                inp  |-> inputs_filepath(t),
                out  |-> out,
                logs |-> logs,
                ret  |-> ExecStatus(exe, ran, drv)]

\* execute(implementation_id, test_id, timeout): the mkdir command, then
\* the driver invocation; returns the output path and the exit status of
\* the second command.  drv is what the driver does when it runs.
execute(w, cf, impl, t, at, drv) ==
    LET out    == outputs_filepath(impl, t)
        logs   == log_dir(impl, t)
        mk     == Shell(w, executable(w), "mkdir", at, TRUE)
        exe    == executable(mk.w)
        ran    == exe \in up /\ mk.w.container[exe].st = "running"
        x      == Shell(mk.w, exe, "exec", at, drv.exit = 0)
    IN  [w    |-> x.w,
         cf   |-> IF ran /\ drv.writes THEN WriteFile(cf, out, drv.data)
                  ELSE cf,
         inp  |-> inputs_filepath(t),
         out  |-> out,
         logs |-> logs,
         ret  |-> ExecStatus(exe, ran, drv)]

\* The exception the unpickler raises at an opcode it cannot carry out: a
\* GET whose argument is no number is a ValueError, a global whose module
\* cannot be imported a ModuleNotFoundError, one whose module lacks the
\* name an AttributeError, a call the callable rejects a TypeError, text
\* that is not UTF-8 a UnicodeDecodeError, a length that cannot be
\* allocated a MemoryError, and an opcode cut short by the end of the file
\* ("pickle data was truncated"), a byte that is no opcode ("invalid load
\* key") or a STOP with nothing on the stack ("unpickling stack
\* underflow") an UnpicklingError.
OpcodeError(op) ==
    CASE op = "GET_no_number"        -> "ValueError"
      [] op = "GLOBAL_no_module"     -> "ModuleNotFoundError"
      [] op = "GLOBAL_no_attribute"  -> "AttributeError"
      [] op = "REDUCE_bad_arguments" -> "TypeError"
      [] op = "UNICODE_bad_utf8"     -> "UnicodeDecodeError"
      [] op = "BINBYTES_too_long"    -> "MemoryError"
      [] OTHER                       -> "UnpicklingError"

\* pickle.load of a file with the opcodes data, read from position i on
\* with the unpickler's stack: the opcodes are carried out in order, the
\* first that fails raises, and STOP returns the top of the stack, whatever
\* it is and whatever follows it.  A PROTO with a number above
\* HIGHEST_PROTOCOL is a ValueError.  A FRAME announces the length of what
\* follows, and the unpickler reads that much at once: a file that ends
\* inside the frame is "pickle data was truncated", an UnpicklingError
\* raised before any opcode of the frame is carried out.  Running out of
\* input between two opcodes, the end of a whole frame included, is an
\* EOFError.
RECURSIVE pickle_load(_, _, _)
pickle_load(data, i, stack) ==
    IF i > Len(data) THEN [err |-> "EOFError", value |-> "none"]
    ELSE IF data[i].op = "PROTO"
      THEN IF data[i].arg <= HIGHEST_PROTOCOL
             THEN pickle_load(data, i + 1, stack)
             ELSE [err |-> "ValueError", value |-> "none"]
    ELSE IF data[i].op = "FRAME"
      THEN IF i + data[i].arg <= Len(data)
             THEN pickle_load(data, i + 1, stack)
             ELSE [err |-> "UnpicklingError", value |-> "none"]
    ELSE IF data[i].op = "OBJ"
      THEN pickle_load(data, i + 1, Append(stack, "EvalResult"))
    ELSE IF data[i].op = "NONE"
      THEN pickle_load(data, i + 1, Append(stack, "None"))
    ELSE IF data[i].op = "STOP" /\ stack # <<>>
      THEN [err |-> "none", value |-> stack[Len(stack)]]
    ELSE [err |-> OpcodeError(data[i].op), value |-> "none"]

\* tempfile.NamedTemporaryFile(delete=False, suffix=".pickle"): a new empty
\* file in the host's temporary directory (directory 0 of hostfs).
NamedTemporaryFile(fs, f) == [fs EXCEPT !.files = @ \cup {f}]

\* os.remove(output_file.name)
os_remove(fs, f) == [fs EXCEPT !.files = @ \ {f}]

\* The part of run() after execute returned e: copy the artifact to a new
\* temporary file, load it, remove the file, return the result.  Whatever
\* pickle.load raises leaves run() at once, the file still on the host.
transfer(e, fs, at) ==
    LET tmp  == <<0, at>>
        cp   == Shell(e.w, executable(e.w), "cp_out", at, e.out \in DOMAIN e.cf)
        data == IF cp.ok THEN e.cf[e.out] ELSE <<>>
        ld   == pickle_load(data, 1, <<>>)
    IN  [w     |-> cp.w,
         e     |-> e,
         tmp   |-> tmp,
         data  |-> data,
         fs    |-> IF ld.err # "none" THEN NamedTemporaryFile(fs, tmp)
                   ELSE os_remove(NamedTemporaryFile(fs, tmp), tmp),
         err   |-> ld.err,
         value |-> ld.value]

\* run(implementation_id, test_id, timeout)
run(w, cf, fs, impl, t, at, drv) ==
    transfer(execute(w, cf, impl, t, at, drv), fs, at)

(* ------------------------------ actions ------------------------------ *)

\* No sampler is made in the sandbox's specification.
NoSampler ==
    /\ uid = 0
    /\ samples_per_prompt = 0
    /\ generation_number = 0
    /\ analysed = <<>>
    /\ samples = <<>>

\* No execute() or run() call is made in this specification.
NoRuns ==
    /\ cfs = <<>>
    /\ execs = <<>>
    /\ runs = <<>>

\* No sampler thread runs in this specification.
NoWorkers ==
    /\ workers = <<>>
    /\ dispatched = EmptyBag

\* No thread is constructing a sandbox beside the caller in this
\* specification.
NoThreads == threads = <<>>

\* What the stores of the engines of a host can hold when the process
\* starts: a store is seen through the engine's service only, and a
\* container is there only with the image it was created from.
HostStores(u) ==
    {s \in [container : [ContainerEngine -> ContainerStates],
            image : SUBSET u] :
        \A e \in ContainerEngine :
            /\ e \notin u => s.container[e] = NoContainer
            /\ s.container[e].st # "none" => e \in s.image}

\* Nothing has been called yet: no staging directory, empty logs.
NoCalls ==
    /\ hostfs = [dirs |-> {}, files |-> {}]
    /\ cmds = <<>>
    /\ ctors = <<>>
    /\ selects = <<>>
    /\ uploads = <<>>
    /\ calls = 0

Init ==
    /\ NoSampler
    /\ NoRuns
    /\ NoWorkers
    /\ NoThreads
    /\ sandboxes = 0
    /\ engine = DEFAULT_CONTAINER_ENGINE
    /\ avail \in SUBSET ContainerEngine
    /\ up \in SUBSET avail
    /\ \E s \in HostStores(up) :
          /\ container = s.container
          /\ image = s.image
    /\ NoCalls

\* DummySandbox(): __init__ registers the instance, nothing else.
DummySandbox_init ==
    /\ calls < MaxCalls
    /\ sandboxes' = register_sandbox(sandboxes).next
    /\ calls' = calls + 1
    /\ UNCHANGED <<engine, avail, up, container, image, hostfs, cmds, ctors,
                   selects, uploads>>
    /\ UNCHANGED <<samplerVars, runVars, workerVars, threadVars>>

\* register_sandbox() called on its own: the counter moves on and the
\* identifier it returns belongs to no instance.
RegisterSandbox ==
    /\ calls < MaxCalls
    /\ sandboxes' = register_sandbox(sandboxes).next
    /\ calls' = calls + 1
    /\ UNCHANGED <<engine, avail, up, container, image, hostfs, cmds, ctors,
                   selects, uploads>>
    /\ UNCHANGED <<samplerVars, runVars, workerVars, threadVars>>

\* ContainerSandbox(project_root, imps_root, eval_relpath, setup_relpath,
\*                  force_rebuild_container)
Construct ==
    /\ calls < MaxCalls
    /\ \E a \in CtorArgs, buildOk \in BOOLEAN :
          LET at  == calls + 1
              reg == register_sandbox(sandboxes)
              r   == ContainerSandbox_init(World(engine, container, image, cmds),
                                           reg.id, a, at, buildOk)
          IN  /\ sandboxes' = reg.next
              /\ engine' = r.w.engine
              /\ container' = r.w.container
              /\ image' = r.w.image
              /\ cmds' = r.w.cmds
              /\ ctors' = Append(ctors,
                              [id       |-> reg.id,
                               eval_py  |-> (a.eval.suffix = ".py"),
                               setup_sh |-> (a.setup.given =>
                                               /\ a.setup.is_file
                                               /\ a.setup.suffix = ".sh"),
                               force    |-> a.force,
                               err      |-> r.err,
                               at       |-> at])
              /\ calls' = at
    /\ UNCHANGED <<avail, up, hostfs, selects, uploads>>
    /\ UNCHANGED <<samplerVars, runVars, workerVars, threadVars>>

\* ContainerSandbox.select_engine()
SelectEngine ==
    /\ calls < MaxCalls
    /\ LET at == calls + 1
           r  == select_engine(World(engine, container, image, cmds), at)
       IN  /\ engine' = r.w.engine
           /\ container' = r.w.container
           /\ cmds' = r.w.cmds
           /\ selects' = Append(selects, [ret |-> r.ret, before |-> engine,
                                          after |-> r.w.engine, at |-> at])
           /\ calls' = at
    /\ UNCHANGED <<sandboxes, avail, up, image, hostfs, ctors, uploads>>
    /\ UNCHANGED <<samplerVars, runVars, workerVars, threadVars>>

\* ContainerSandbox.upload_test_cases(test_cases)
UploadTestCases ==
    /\ calls < MaxCalls
    /\ \E n \in 0..MaxCases : \E bad \in 0..n :
          LET at == calls + 1
              r  == upload_test_cases(World(engine, container, image, cmds), hostfs,
                                      at, n, bad, at)
          IN  /\ hostfs' = r.fs
              /\ engine' = r.w.engine
              /\ container' = r.w.container
              /\ cmds' = r.w.cmds
              /\ uploads' = Append(uploads, [dir |-> at,
                                             raised |-> r.raised,
                                             cp |-> r.cp, at |-> at])
              /\ calls' = at
    /\ UNCHANGED <<sandboxes, avail, up, image, ctors, selects>>
    /\ UNCHANGED <<samplerVars, runVars, workerVars, threadVars>>

\* A class method called on its own left the world w: one more API call,
\* nothing else changed.
Called(w) ==
    /\ engine' = w.engine
    /\ container' = w.container
    /\ image' = w.image
    /\ cmds' = w.cmds
    /\ calls' = calls + 1
    /\ UNCHANGED <<sandboxes, avail, up, hostfs, ctors, selects, uploads>>
    /\ UNCHANGED <<samplerVars, runVars, workerVars, threadVars>>

\* ContainerSandbox.has_engine(engine)
HasEngine ==
    /\ calls < MaxCalls
    /\ \E e \in ContainerEngine :
          Called(has_engine(World(engine, container, image, cmds), e, calls + 1).w)

\* ContainerSandbox.use_engine(engine)
UseEngine ==
    /\ calls < MaxCalls
    /\ \E e \in ContainerEngine :
          Called(use_engine(World(engine, container, image, cmds), e))

\* ContainerSandbox.image_exists()
ImageExists ==
    /\ calls < MaxCalls
    /\ Called(image_exists(World(engine, container, image, cmds), calls + 1).w)

\* ContainerSandbox.container_exists()
ContainerExists ==
    /\ calls < MaxCalls
    /\ Called(container_exists(World(engine, container, image, cmds), calls + 1).w)

\* ContainerSandbox.remove_container()
RemoveContainer ==
    /\ calls < MaxCalls
    /\ Called(remove_container(World(engine, container, image, cmds), calls + 1))

\* ContainerSandbox.build_image(project_root, eval_relpath, setup_relpath)
BuildImage ==
    /\ calls < MaxCalls
    /\ \E buildOk \in BOOLEAN :
          Called(build_image(World(engine, container, image, cmds), calls + 1,
                             buildOk).w)

\* ContainerSandbox.create_container(imps_root)
CreateContainer ==
    /\ calls < MaxCalls
    /\ Called(create_container(World(engine, container, image, cmds), calls + 1))

\* ContainerSandbox.start_container()
StartContainer ==
    /\ calls < MaxCalls
    /\ Called(start_container(World(engine, container, image, cmds), calls + 1))

Next ==
    \/ DummySandbox_init
    \/ RegisterSandbox
    \/ Construct
    \/ SelectEngine
    \/ UploadTestCases
    \/ HasEngine
    \/ UseEngine
    \/ ImageExists
    \/ ContainerExists
    \/ RemoveContainer
    \/ BuildImage
    \/ CreateContainer
    \/ StartContainer

Spec == Init /\ [][Next]_vars

\* No sandbox is made in the sampler's specification.
NoSandbox ==
    /\ sandboxes = 0
    /\ engine = DEFAULT_CONTAINER_ENGINE
    /\ avail = {}
    /\ up = {}
    /\ container = [e \in ContainerEngine |-> NoContainer]
    /\ image = {}
    /\ NoCalls

\* Sampler(database, evaluators, model, uid)
InitSampler ==
    /\ NoSandbox
    /\ NoRuns
    /\ NoWorkers
    /\ NoThreads
    /\ uid \in Uids
    /\ samples_per_prompt \in 0..MaxBatch
    /\ generation_number = 0
    /\ analysed = <<>>
    /\ samples = <<>>

\* Sampler.sample()
Sample ==
    /\ Len(samples) < MaxSamples
    /\ \E island \in Islands, promptOk \in BOOLEAN, drawOk \in BOOLEAN,
          failAt \in 0..samples_per_prompt,
          picks \in [1..samples_per_prompt -> Evaluators] :
          LET call == Len(samples) + 1
              r    == sample(uid, generation_number, samples_per_prompt, call,
                             island, picks, promptOk, drawOk, failAt)
          IN  /\ generation_number' = r.gen
              /\ analysed' = analysed \o r.sent
              /\ samples' = Append(samples,
                                [batch |-> IF promptOk /\ drawOk
                                             THEN samples_per_prompt ELSE 0,
                                 island |-> IF promptOk THEN island ELSE -1,
                                 first |-> generation_number,
                                 err   |-> r.err])
    /\ UNCHANGED <<uid, samples_per_prompt>>
    /\ UNCHANGED <<sandboxVars, runVars, workerVars, threadVars>>

NextSampler == Sample

SpecSampler == InitSampler /\ [][NextSampler]_vars


\* A process on a host with one engine installed has a sandbox instance:
\* ContainerSandbox(...) was called in the new process and either returned
\* instance 0, or raised and a second call with valid inputs returned
\* instance 1 without issuing a command.  The engine pinned and the stores
\* are as the first call left them; the logs start empty here.  The calls
\* are made without a setup script.
InitRun ==
    /\ NoSampler
    /\ avail \in {{"docker"}, {"podman"}}
    /\ up \in SUBSET avail
    /\ \E s \in HostStores(up), buildOk \in BOOLEAN :
       \E a \in {x \in CtorArgs : ~x.setup.given} :
          \E r \in {ContainerSandbox_init(
                        World(DEFAULT_CONTAINER_ENGINE, s.container, s.image,
                              <<>>),
                        register_sandbox(0).id, a, 1, buildOk)} :
              /\ sandboxes = (IF r.err = "none" THEN 1 ELSE 2)
              /\ engine = r.w.engine
              /\ container = r.w.container
              /\ image = r.w.image
    /\ NoCalls
    /\ NoRuns
    /\ NoWorkers
    /\ NoThreads

\* The record of an execute() call.
ExecRecord(e, impl, t, at) ==
    [impl |-> impl, test |-> t, inp |-> e.inp, out |-> e.out,
     logs |-> e.logs, ret |-> e.ret, at |-> at]

\* sandbox.execute(implementation_id, test_id)
Execute ==
    /\ calls < MaxRuns
    /\ \E impl \in ImplIds, t \in TestIds, drv \in DriverOutcomes :
          \E e \in {execute(World(engine, container, image, cmds), cfs, impl, t,
                             calls + 1, drv)} :
              /\ container' = e.w.container
              /\ cmds' = e.w.cmds
              /\ cfs' = e.cf
              /\ execs' = Append(execs, ExecRecord(e, impl, t, calls + 1))
              /\ calls' = calls + 1
    /\ UNCHANGED <<sandboxes, engine, avail, up, image, hostfs, ctors, selects,
                   uploads, runs>>
    /\ UNCHANGED <<samplerVars, workerVars, threadVars>>

\* sandbox.run(implementation_id, test_id)
Run ==
    /\ calls < MaxRuns
    /\ \E impl \in ImplIds, t \in TestIds, drv \in DriverOutcomes :
          \E r \in {run(World(engine, container, image, cmds), cfs, hostfs, impl, t,
                         calls + 1, drv)} :
              /\ container' = r.w.container
              /\ cmds' = r.w.cmds
              /\ cfs' = r.e.cf
              /\ hostfs' = r.fs
              /\ execs' = Append(execs, ExecRecord(r.e, impl, t, calls + 1))
              /\ runs' = Append(runs, [impl |-> impl, test |-> t,
                                       tmp |-> r.tmp, data |-> r.data,
                                       err |-> r.err, value |-> r.value,
                                       at |-> calls + 1])
              /\ calls' = calls + 1
    /\ UNCHANGED <<sandboxes, engine, avail, up, image, ctors, selects,
                   uploads>>
    /\ UNCHANGED <<samplerVars, workerVars, threadVars>>

NextRun == Execute \/ Run

SpecRun == InitRun /\ [][NextRun]_vars

(* -------------------------- sampler threads -------------------------- *)

\* The uids the samplers of the threads are made with.
WorkerUids == Uids \cup {1}

Workers == 1..NumWorkers

\* Sampler(database, evaluators, model, uid) for a thread that has not
\* called sample() yet.  todo: the candidates of the batch not yet sent;
\* curr_id: the local variable of the loop; began: sample() calls begun.
NewWorker(u) ==
    [uid |-> u, generation_number |-> 0, pc |-> "idle", todo |-> 0,
     curr_id |-> <<>>, began |-> 0]

\* One Sampler per thread, with pairwise distinct uids; the model client's
\* batch size is the same for all of them.  The threads run the same code,
\* so they are numbered in the order of their uids.
InitWorkers ==
    /\ NoSandbox
    /\ NoRuns
    /\ NoThreads
    /\ uid = 0
    /\ generation_number = 0
    /\ analysed = <<>>
    /\ samples = <<>>
    /\ samples_per_prompt \in 1..MaxBatch
    /\ \E u \in [Workers -> WorkerUids] :
          /\ \A v \in Workers : \A w \in Workers : v < w => u[v] < u[w]
          /\ workers = [w \in Workers |-> NewWorker(u[w])]
    /\ dispatched = EmptyBag

\* sample() is entered: prompt = self._database.get_prompt(), which returns
\* or raises.
GetPrompt(w) ==
    /\ workers[w].pc = "idle"
    /\ workers[w].began < MaxWorkerCalls
    /\ \E promptOk \in BOOLEAN :
          workers' = [workers EXCEPT
                         ![w].began = @ + 1,
                         ![w].pc = IF promptOk THEN "draw" ELSE "idle"]
    /\ UNCHANGED dispatched

\* samples = self._llm.draw_samples(prompt.code), which returns the batch
\* or raises.
DrawSamples(w) ==
    /\ workers[w].pc = "draw"
    /\ \E drawOk \in BOOLEAN :
          workers' = [workers EXCEPT
                         ![w].todo = IF drawOk THEN samples_per_prompt ELSE 0,
                         ![w].pc = IF drawOk THEN "curr_id" ELSE "idle"]
    /\ UNCHANGED dispatched

\* curr_id = str(self.uid) + "_" + str(self.generation_number)
MakeCurrId(w) ==
    /\ workers[w].pc = "curr_id"
    /\ workers' = [workers EXCEPT
                      ![w].curr_id = curr_id(workers[w].uid,
                                             workers[w].generation_number),
                      ![w].pc = "increment"]
    /\ UNCHANGED dispatched

\* self.generation_number += 1
Increment(w) ==
    /\ workers[w].pc = "increment"
    /\ workers' = [workers EXCEPT ![w].generation_number = @ + 1,
                                  ![w].pc = "analyse"]
    /\ UNCHANGED dispatched

\* chosen_evaluator.analyse(sample, prompt.island_id, curr_id), which
\* returns, and the loop goes on or sample() ends, or raises out of
\* sample().
Analyse(w) ==
    /\ workers[w].pc = "analyse"
    /\ dispatched' = dispatched (+)
                         SetToBag({[run_id |-> workers[w].curr_id,
                                    worker |-> w]})
    /\ \E raised \in BOOLEAN :
          LET left == IF raised THEN 0 ELSE workers[w].todo - 1
          IN  workers' = [workers EXCEPT
                             ![w].todo = left,
                             ![w].pc = IF left > 0 THEN "curr_id" ELSE "idle"]

\* One step of one thread.
WorkerStep(w) ==
    \/ GetPrompt(w)
    \/ DrawSamples(w)
    \/ MakeCurrId(w)
    \/ Increment(w)
    \/ Analyse(w)

NextWorkers ==
    /\ \E w \in Workers : WorkerStep(w)
    /\ UNCHANGED <<sandboxVars, samplerVars, runVars, threadVars>>

SpecWorkers == InitWorkers /\ [][NextWorkers]_vars

(* ------------------------ constructing threads ----------------------- *)

Threads == 1..NumThreads

\* The arguments the threads construct their sandboxes with: an evaluation
\* entry point that passes the checks, no setup script, either force flag.
ThreadArgs ==
    {a \in CtorArgs : ValidationError(a) = "none" /\ ~a.setup.given}

\* The process has constructed no sandbox; each thread is about to call
\* ContainerSandbox(...).  A thread keeps its place in __init__, the local
\* sandbox_id of register_sandbox, its force_rebuild_container and the
\* executable it wrote into the command line it is about to issue.  The
\* field overlapped records that the thread read the counter while another
\* thread was between its own read and its increment.
InitThreads ==
    /\ NoSampler
    /\ NoRuns
    /\ NoWorkers
    /\ sandboxes = 0
    /\ engine = DEFAULT_CONTAINER_ENGINE
    /\ avail \in SUBSET ContainerEngine
    /\ up \in SUBSET avail
    /\ \E s \in HostStores(up) :
          /\ container = s.container
          /\ image = s.image
    /\ NoCalls
    /\ threads = [t \in Threads |->
                    [pc |-> "read", sandbox_id |-> -1, force |-> FALSE,
                     exe |-> "none", overlapped |-> FALSE]]

\* register_sandbox, first statement: sandbox_id = DummySandbox.sandboxes
RegisterRead(t) ==
    /\ threads[t].pc = "read"
    /\ threads' = [threads EXCEPT
                      ![t].sandbox_id = register_sandbox(sandboxes).id,
                      ![t].overlapped =
                          \E u \in Threads \ {t} : threads[u].pc = "increment",
                      ![t].pc = "increment"]
    /\ UNCHANGED sandboxVars

\* register_sandbox, second statement: DummySandbox.sandboxes += 1
RegisterIncrement(t) ==
    /\ threads[t].pc = "increment"
    /\ sandboxes' = register_sandbox(sandboxes).next
    /\ threads' = [threads EXCEPT ![t].pc = "init"]
    /\ UNCHANGED <<engine, avail, up, container, image, hostfs, cmds, ctors,
                   selects, uploads, calls>>

\* The thread's step left the world w and the thread at pc; the thread's
\* commands are logged under the thread's number.
Stepped(t, w, pc) ==
    /\ engine' = w.engine
    /\ container' = w.container
    /\ image' = w.image
    /\ cmds' = w.cmds
    /\ threads' = [threads EXCEPT ![t].pc = pc]
    /\ UNCHANGED <<sandboxes, avail, up, hostfs, ctors, selects, uploads,
                   calls>>

\* The thread's step left the world w and ended its __init__, which
\* returned (err = "none") or raised err.
Returned(t, w, force, err) ==
    /\ engine' = w.engine
    /\ container' = w.container
    /\ image' = w.image
    /\ cmds' = w.cmds
    /\ threads' = [threads EXCEPT ![t].pc = "done", ![t].force = force]
    /\ ctors' = Append(ctors,
                    [id       |-> threads[t].sandbox_id,
                     eval_py  |-> TRUE,
                     setup_sh |-> TRUE,
                     force    |-> force,
                     err      |-> err,
                     at       |-> t])
    /\ calls' = calls + 1
    /\ UNCHANGED <<sandboxes, avail, up, hostfs, selects, uploads>>

\* __init__ after super().__init__(): the input checks and the gate on the
\* identifier; no command is issued.
InitChecks(t) ==
    /\ threads[t].pc = "init"
    /\ \E a \in ThreadArgs :
          \E w \in {World(engine, container, image, cmds)} :
              IF ValidationError(a) # "none"
                THEN Returned(t, w, a.force, ValidationError(a))
              ELSE IF ReusesContainer(threads[t].sandbox_id)
                THEN Returned(t, w, a.force, "none")
              ELSE /\ threads' = [threads EXCEPT
                                    ![t].pc = IF a.force THEN "remove_cmd"
                                              ELSE "exists_cmd",
                                    ![t].force = a.force]
                   /\ UNCHANGED sandboxVars

\* The places where a command line is written, and for each the place
\* where that command is issued.
CommandAfter ==
    [exists_cmd |-> "exists", remove_cmd |-> "remove", rm_cmd |-> "rm",
     build_cmd |-> "build", create_cmd |-> "create", start_cmd |-> "start"]

\* cmd = f"{cls.executable} ...": the statement that writes a command line
\* reads the pinned engine; a later statement issues the command.
InitCommandLine(t) ==
    /\ threads[t].pc \in DOMAIN CommandAfter
    /\ threads' = [threads EXCEPT
                      ![t].exe = executable(World(engine, container, image,
                                                  cmds)),
                      ![t].pc = CommandAfter[threads[t].pc]]
    /\ UNCHANGED sandboxVars

\* `force_rebuild_container or not self.container_exists()`: the listing
InitExists(t) ==
    /\ threads[t].pc = "exists"
    /\ \E r \in {Shell(World(engine, container, image, cmds), threads[t].exe,
                       "ls", t, TRUE)} :
          Stepped(t, r.w, IF r.out THEN "start_cmd" ELSE "remove_cmd")

\* remove_container(): its own listing
InitRemoveLs(t) ==
    /\ threads[t].pc = "remove"
    /\ \E r \in {Shell(World(engine, container, image, cmds), threads[t].exe,
                       "ls", t, TRUE)} :
          Stepped(t, r.w, IF r.out THEN "rm_cmd" ELSE "probe_docker")

\* remove_container(): the `rm -f` after a listing that showed the container
InitRemoveRm(t) ==
    /\ threads[t].pc = "rm"
    /\ Stepped(t, Shell(World(engine, container, image, cmds), threads[t].exe,
                        "rm", t, TRUE).w, "probe_docker")

\* build_image() -> select_engine(): has_engine(DOCKER)
InitProbeDocker(t) ==
    /\ threads[t].pc = "probe_docker"
    /\ \E r \in {has_engine(World(engine, container, image, cmds), "docker",
                            t)} :
          Stepped(t, r.w, IF r.ok THEN "use_docker" ELSE "probe_podman")

\* build_image() -> select_engine(): has_engine(PODMAN); when it fails too
\* the exception leaves __init__
InitProbePodman(t) ==
    /\ threads[t].pc = "probe_podman"
    /\ \E r \in {has_engine(World(engine, container, image, cmds), "podman",
                            t)} :
          IF r.ok THEN Stepped(t, r.w, "use_podman")
          ELSE Returned(t, r.w, threads[t].force, "Exception:no_engine")

\* build_image() -> select_engine() -> use_engine(engine): the engine the
\* thread's probe found is pinned, in a statement of its own after the probe
InitUseEngine(t) ==
    /\ threads[t].pc \in {"use_docker", "use_podman"}
    /\ Stepped(t, use_engine(World(engine, container, image, cmds),
                             IF threads[t].pc = "use_docker" THEN "docker"
                             ELSE "podman"),
               "build_cmd")

\* build_image(): the build command; a non-zero exit raises RuntimeError
InitBuild(t) ==
    /\ threads[t].pc = "build"
    /\ \E buildOk \in BOOLEAN :
          \E b \in {Shell(World(engine, container, image, cmds),
                          threads[t].exe, "build", t, buildOk)} :
              IF b.ok THEN Stepped(t, b.w, "create_cmd")
              ELSE Returned(t, b.w, threads[t].force, "RuntimeError:build")

\* create_container(imps_root): the create command
InitCreate(t) ==
    /\ threads[t].pc = "create"
    /\ Stepped(t, Shell(World(engine, container, image, cmds), threads[t].exe,
                        "create", t, TRUE).w, "start_cmd")

\* start_container(): the start command, after which __init__ returns
InitStart(t) ==
    /\ threads[t].pc = "start"
    /\ Returned(t, Shell(World(engine, container, image, cmds),
                         threads[t].exe, "start", t, TRUE).w,
                threads[t].force, "none")

\* One step of one thread: a thread can be switched out between any two
\* statements that read or write what the threads share (the counter, the
\* pinned engine, the host's stores), so each step holds one such access.
ThreadStep(t) ==
    \/ RegisterRead(t)
    \/ RegisterIncrement(t)
    \/ InitChecks(t)
    \/ InitCommandLine(t)
    \/ InitExists(t)
    \/ InitRemoveLs(t)
    \/ InitRemoveRm(t)
    \/ InitProbeDocker(t)
    \/ InitProbePodman(t)
    \/ InitUseEngine(t)
    \/ InitBuild(t)
    \/ InitCreate(t)
    \/ InitStart(t)

NextThreads ==
    /\ \E t \in Threads : ThreadStep(t)
    /\ UNCHANGED <<samplerVars, runVars, workerVars>>

SpecThreads == InitThreads /\ [][NextThreads]_vars

(* ------------------------------ claims ------------------------------- *)

\* The commands a call issued, by the positions they have in the log.
CmdsAt(at) == {k \in DOMAIN cmds : cmds[k].at = at}

\* The operations of the commands a call issued, in order.
RECURSIVE OpsFrom(_, _)
OpsFrom(k, at) ==
    IF k > Len(cmds) THEN <<>>
    ELSE IF cmds[k].at = at THEN <<cmds[k].op>> \o OpsFrom(k + 1, at)
    ELSE OpsFrom(k + 1, at)

ProvisioningOps == {"rm", "build", "create", "start"}

ValidationErrors ==
    {"ValueError:setup_file", "ValueError:eval_file",
     "FileNotFoundError:eval_file"}

\* C1: only the first construction, the instance with identifier 0, issues
\* remove, build, create or start commands; every later construction
\* issues no command at all, whatever its arguments.  Identifier 0 goes to
\* no later construction, and it goes to the first one unless a
\* DummySandbox() or a register_sandbox() call took it before, in which
\* case no construction provisions.
C1_OnlyFirstProvisions ==
    /\ \A i \in DOMAIN ctors :
          /\ ctors[i].id = 0 => i = 1
          /\ sandboxes = Len(ctors) => (i = 1 => ctors[i].id = 0)
          /\ i > 1 => CmdsAt(ctors[i].at) = {}
    /\ \A k \in DOMAIN cmds : \A i \in DOMAIN ctors :
          (cmds[k].op \in ProvisioningOps /\ cmds[k].at = ctors[i].at) =>
              i = 1 /\ ctors[i].id = 0

\* A second, valid construction that asks for a rebuild, after a first one
\* that started the container.
C1_Witness ==
    /\ Len(ctors) >= 2
    /\ ctors[2].force /\ ctors[2].err = "none"
    /\ \E k \in CmdsAt(ctors[1].at) : cmds[k].op = "start"

\* C4 as claimed: of two consecutive select_engine calls, the second one
\* issues no version probe and returns the engine the first one returned.
C4_SecondSelectDoesNotProbe ==
    \A i \in DOMAIN selects :
        (i > 1 /\ selects[i].at = selects[i - 1].at + 1
               /\ selects[i - 1].ret # "raise") =>
            /\ \A k \in CmdsAt(selects[i].at) : cmds[k].op # "version"
            /\ selects[i].ret = selects[i - 1].ret

\* C5 as claimed: after a construction failed on the image build, a later
\* construction with valid inputs and the force-rebuild flag builds the
\* image again.
C5_ForcedRetryRebuilds ==
    \A i \in DOMAIN ctors : \A j \in DOMAIN ctors :
        (i < j /\ ctors[i].err = "RuntimeError:build"
               /\ ctors[j].force
               /\ ctors[j].err \notin ValidationErrors) =>
            \E k \in CmdsAt(ctors[j].at) : cmds[k].op = "build"

\* C6 as claimed: when a construction returns normally, a start command has
\* been issued in the process by then, and no build before it failed.
C6_UsableOnlyAfterStart ==
    \A i \in DOMAIN ctors :
        ctors[i].err = "none" =>
            \E k \in DOMAIN cmds :
                /\ cmds[k].op = "start"
                /\ cmds[k].at <= ctors[i].at
                /\ \A b \in 1..(k - 1) : cmds[b].op = "build" => cmds[b].ok

\* C7 as claimed: a construction that fails validation does not use up an
\* identifier, so the construction after it, when valid, gets the identifier
\* the failed one read from the counter.
C7_FailedValidationKeepsCounter ==
    \A i \in DOMAIN ctors :
        (i > 1 /\ ctors[i - 1].err \in ValidationErrors
               /\ ctors[i].err \notin ValidationErrors) =>
            ctors[i].id = ctors[i - 1].id

\* C8: a construction whose entry point is not a .py file, or whose given
\* setup script is not an existing .sh file, raises a validation error and
\* issues no shell command.
C8_InvalidInputsIssueNoCommand ==
    \A i \in DOMAIN ctors :
        (~ctors[i].eval_py \/ ~ctors[i].setup_sh) =>
            /\ ctors[i].err \in ValidationErrors
            /\ CmdsAt(ctors[i].at) = {}

\* The first construction of the process, on a host whose container runs,
\* is given a .txt entry point.
C8_Witness ==
    /\ ctors # <<>>
    /\ ctors[1].id = 0 /\ ~ctors[1].eval_py /\ ctors[1].setup_sh
    /\ ctors[1].err = "ValueError:eval_file"
    /\ \E e \in avail : container[e].st = "running"

\* The place of a provisioning command in remove, build, create, start.
OpRank(op) ==
    CASE op = "rm" -> 1 [] op = "build" -> 2 [] op = "create" -> 3
      [] op = "start" -> 4 [] OTHER -> 0

\* Construction i took the provisioning path: instance 0 with valid inputs,
\* forced, or told by its first command that the container is absent.
OnProvisioningPath(i) ==
    /\ ctors[i].id = 0
    /\ ctors[i].err \notin ValidationErrors
    /\ \/ ctors[i].force
       \/ \E k \in CmdsAt(ctors[i].at) :
             /\ \A j \in CmdsAt(ctors[i].at) : k <= j
             /\ cmds[k].op = "ls" /\ ~cmds[k].out

\* C9: on the provisioning path the commands come in the order remove,
\* build, create, start; create and start follow a build that exited with
\* status 0, in which case each of the three is issued once; a build that
\* exits with another status raises and no create or start follows it.
C9_ProvisioningOrder ==
    \A i \in DOMAIN ctors :
        OnProvisioningPath(i) =>
            LET mine == CmdsAt(ctors[i].at)
                prov == {k \in mine : cmds[k].op \in ProvisioningOps}
                of(op) == {k \in mine : cmds[k].op = op}
            IN  /\ \A k \in prov : \A l \in prov :
                      k < l => OpRank(cmds[k].op) < OpRank(cmds[l].op)
                /\ \A k \in of("create") \cup of("start") :
                      \E b \in of("build") : b < k /\ cmds[b].ok
                /\ ctors[i].err = "none" =>
                      /\ Cardinality(of("build")) = 1
                      /\ Cardinality(of("create")) = 1
                      /\ Cardinality(of("start")) = 1
                /\ \A b \in of("build") :
                      ~cmds[b].ok =>
                          /\ ctors[i].err = "RuntimeError:build"
                          /\ \A k \in mine :
                                k > b => cmds[k].op \notin {"create", "start"}

\* A forced construction that removes the running container, builds,
\* creates and starts.
C9_Witness ==
    /\ Len(ctors) = 1 /\ OnProvisioningPath(1)
    /\ OpsFrom(1, ctors[1].at) =
           <<"ls", "rm", "version", "build", "create", "start">>

\* C10: the staging directory of every upload_test_cases call is gone from
\* the host when the call is over, with the files put in it, whether the
\* call returned or raised.
C10_StagingDirRemoved ==
    \A i \in DOMAIN uploads :
        /\ uploads[i].dir \notin hostfs.dirs
        /\ \A f \in hostfs.files : f[1] # uploads[i].dir

\* One upload raised while staging, one failed in the copy and returned.
C10_Witness ==
    \E i \in DOMAIN uploads : \E j \in DOMAIN uploads :
        /\ uploads[i].raised
        /\ ~uploads[j].raised /\ uploads[j].cp = "failed"

Range(f) == {f[x] : x \in DOMAIN f}

\* The value of a decimal digit character.
DigitValue(c) == CHOOSE d \in 0..9 : DecimalDigits[d + 1] = c

\* The number a sequence of decimal digits writes.
RECURSIVE ParseInt(_)
ParseInt(s) ==
    IF s = <<>> THEN 0
    ELSE 10 * ParseInt(SubSeq(s, 1, Len(s) - 1)) + DigitValue(s[Len(s)])

\* How many digits the decimal text of n has (n < 1000).
NumDigits(n) == IF n < 10 THEN 1 ELSE IF n < 100 THEN 2 ELSE 3

\* s is the text "<u>_<g>", both numbers written without leading zeros.
IsRunId(s, u, g) ==
    /\ Len(s) = NumDigits(u) + 1 + NumDigits(g)
    /\ s[NumDigits(u) + 1] = "_"
    /\ \A k \in DOMAIN s : k # NumDigits(u) + 1 => s[k] \in Range(DecimalDigits)
    /\ ParseInt(SubSeq(s, 1, NumDigits(u))) = u
    /\ ParseInt(SubSeq(s, NumDigits(u) + 2, Len(s))) = g

AllCompleted == \A c \in DOMAIN samples : samples[c].err = "none"

\* C2: when every sample() call so far completed, the run identifiers
\* passed to analyse are uid_0, uid_1, ..., uid_(N*B-1) in the order of the
\* analyse calls, and no two are equal.
C2_RunIdsInDispatchOrder ==
    AllCompleted =>
        /\ Len(analysed) = Len(samples) * samples_per_prompt
        /\ \A i \in DOMAIN analysed : IsRunId(analysed[i].run_id, uid, i - 1)
        /\ \A i \in DOMAIN analysed : \A j \in DOMAIN analysed :
              i # j => analysed[i].run_id # analysed[j].run_id

\* Two completed calls of the sampler with uid 12 and batches of two.
C2_Witness ==
    /\ AllCompleted
    /\ uid = 12 /\ samples_per_prompt = 2 /\ Len(samples) = 2
    /\ analysed[4].run_id = <<"1", "2", "_", "3">>

\* C3 as claimed: in a sample() call in which an analyse call raised, every
\* candidate of the batch was passed to analyse.
C3_RemainingStillDispatched ==
    \A c \in DOMAIN samples :
        samples[c].err = "analyse" =>
            Cardinality({i \in DOMAIN analysed : analysed[i].call = c})
                = samples[c].batch


\* C11 as claimed: an upload_test_cases call whose copy into the container
\* failed does not return normally.
C11_CopyFailureRaises ==
    \A i \in DOMAIN uploads : uploads[i].cp = "failed" => uploads[i].raised

\* The pair an execute() call was made for.
PairOf(e) == <<e.impl, e.test>>

\* C12 as claimed: two execute() calls for distinct (implementation_id,
\* test_id) pairs never get the same output path or the same log directory.
C12_DistinctPairsNeverAlias ==
    \A i \in DOMAIN execs : \A j \in DOMAIN execs :
        PairOf(execs[i]) # PairOf(execs[j]) =>
            /\ execs[i].out # execs[j].out
            /\ execs[i].logs # execs[j].logs

\* The positions of the separators in the text s.
Slashes(s) == {k \in DOMAIN s : s[k] = "/"}

\* The position of the k-th separator of s; 0 stands before the text and
\* the position after its end closes it.
Separator(s, k) ==
    IF k = 0 THEN 0
    ELSE IF k > Cardinality(Slashes(s)) THEN Len(s) + 1
    ELSE CHOOSE p \in Slashes(s) :
             Cardinality({q \in Slashes(s) : q < p}) = k - 1

\* The text s as written, cut at its separators.
Written(s) ==
    [k \in 1..(Cardinality(Slashes(s)) + 1) |->
        SubSeq(s, Separator(s, k - 1) + 1, Separator(s, k) - 1)]

\* An implementation identifier in the form pathlib keeps as it is written
\* and that names one directory only: relative, its components separated
\* by single "/", none of them empty, "." or "..".
NormalId(s) ==
    \A k \in DOMAIN Written(s) :
        Written(s)[k] \notin {<<>>, <<".">>, <<".", ".">>}

\* <outputs>/<implementation_id>/output_<test_id>.pickle
OutputFileOf(impl, t) ==
    CONTAINER_OUTPUTS_PATH \o Written(impl) \o
        << <<"o", "u", "t", "p", "u", "t", "_">> \o str(t) \o DotPickle >>

\* <logs>/<implementation_id>/test_<test_id>
LogDirOf(impl, t) ==
    CONTAINER_LOGS_PATH \o Written(impl) \o
        << <<"t", "e", "s", "t", "_">> \o str(t) >>

\* C12, amended: the paths of an execute() call depend on its pair alone
\* (two calls for the same pair, whatever the state they are made in, get
\* the same paths; the input path is <inputs>/<test_id>.pickle), and for
\* an implementation identifier in the form pathlib keeps as written the
\* output path is <outputs>/<id>/output_<test_id>.pickle and the log
\* directory <logs>/<id>/test_<test_id>, so that distinct pairs of such
\* identifiers never get the same output path or the same log directory.
C12_NormalIdsNeverAlias ==
    \A i \in DOMAIN execs :
        /\ execs[i].inp =
              CONTAINER_INPUTS_PATH \o << str(execs[i].test) \o DotPickle >>
        /\ NormalId(execs[i].impl) =>
              /\ execs[i].out = OutputFileOf(execs[i].impl, execs[i].test)
              /\ execs[i].logs = LogDirOf(execs[i].impl, execs[i].test)
        /\ \A j \in DOMAIN execs :
              /\ PairOf(execs[i]) = PairOf(execs[j]) =>
                    /\ execs[i].inp = execs[j].inp
                    /\ execs[i].out = execs[j].out
                    /\ execs[i].logs = execs[j].logs
              /\ (/\ NormalId(execs[i].impl) /\ NormalId(execs[j].impl)
                  /\ PairOf(execs[i]) # PairOf(execs[j])) =>
                    /\ execs[i].out # execs[j].out
                    /\ execs[i].logs # execs[j].logs

\* Implementation a was run on test 0 and then on test 1.
C12_Witness ==
    /\ Len(runs) = 2
    /\ runs[1].impl = <<"a">> /\ runs[1].test = 0
    /\ runs[2].impl = <<"a">> /\ runs[2].test = 1
    /\ execs[2].out = << <<"o", "u", "t">>, <<"a">>,
                         <<"o", "u", "t", "p", "u", "t", "_", "1",
                           ".", "p", "i", "c", "k", "l", "e">> >>

\* C13 as claimed: a run() whose copied file is empty and a run() whose
\* copied file has content that does not load end in different errors, and
\* neither returns a result.
C13_UnavailableAndCorruptDiffer ==
    \A i \in DOMAIN runs : \A j \in DOMAIN runs :
        (/\ runs[i].data = <<>>
         /\ runs[j].data # <<>> /\ runs[j].err # "none") =>
            /\ runs[i].err # "none"
            /\ runs[i].err # runs[j].err

\* C14 as claimed: no temporary file made by a run() call is on the host
\* once the call is over.
C14_NoTempFileLeft ==
    \A i \in DOMAIN runs : runs[i].tmp \notin hostfs.files


\* generation_number when sample() call c was over.
GenAfter(c) ==
    IF c = Len(samples) THEN generation_number ELSE samples[c + 1].first

\* The analyse calls made by sample() call c, by their positions in the log.
AnalysedIn(c) == {i \in DOMAIN analysed : analysed[i].call = c}

\* C15: a sample() call that get_prompt or draw_samples fails raises that
\* error, makes no analyse call and leaves generation_number as it was;
\* generation_number starts at 0 and never goes down, and the k-th analyse
\* call of a sample() call carries the number the call started with plus
\* k - 1, so numbering goes on where the last dispatch left it.
C15_AbortKeepsNumbering ==
    \A c \in DOMAIN samples :
        /\ samples[c].err \in {"get_prompt", "draw_samples"} =>
              /\ AnalysedIn(c) = {}
              /\ GenAfter(c) = samples[c].first
        /\ samples[c].first >= 0
        /\ c = 1 => samples[c].first = 0
        /\ GenAfter(c) = samples[c].first + Cardinality(AnalysedIn(c))
        /\ \A i \in AnalysedIn(c) :
              IsRunId(analysed[i].run_id, uid,
                      samples[c].first + analysed[i].sample[2] - 1)

\* A call that dispatched two candidates, then a call that draw_samples
\* failed.
C15_Witness ==
    /\ Len(samples) = 2
    /\ samples[1].err = "none" /\ samples[1].batch = 2
    /\ samples[2].err = "draw_samples"
    /\ generation_number = 2

\* C20: a sample() call that completes passes every candidate of the batch
\* to analyse once, in batch order, each to an evaluator of the pool and
\* with the island of the prompt of that call, and generation_number grows
\* by the batch size.
C20_BatchDispatchedOnce ==
    \A c \in DOMAIN samples :
        samples[c].err = "none" =>
            /\ Cardinality(AnalysedIn(c)) = samples[c].batch
            /\ \A k \in 1..samples[c].batch :
                  Cardinality({i \in AnalysedIn(c) :
                                  analysed[i].sample = <<c, k>>}) = 1
            /\ \A i \in AnalysedIn(c) : \A j \in AnalysedIn(c) :
                  i < j => analysed[i].sample[2] < analysed[j].sample[2]
            /\ \A i \in AnalysedIn(c) :
                  /\ analysed[i].evaluator \in Evaluators
                  /\ analysed[i].island_id = samples[c].island
                  /\ ~analysed[i].raised
            /\ GenAfter(c) = samples[c].first + samples[c].batch

\* A completed call with a batch of two for a prompt of island 1, sent to
\* two different evaluators.
C20_Witness ==
    /\ Len(samples) = 1 /\ samples[1].err = "none"
    /\ samples[1].batch = 2 /\ samples[1].island = 1
    /\ Len(analysed) = 2
    /\ analysed[1].evaluator # analysed[2].evaluator
    /\ analysed[2].island_id = 1


\* The executables of the commands a call issued, in order.
RECURSIVE ExesFrom(_, _)
ExesFrom(k, at) ==
    IF k > Len(cmds) THEN <<>>
    ELSE IF cmds[k].at = at THEN <<cmds[k].exe>> \o ExesFrom(k + 1, at)
    ELSE ExesFrom(k + 1, at)

\* C17: select_engine probes docker first and podman second; it returns and
\* pins docker when docker is available, returns and pins podman when only
\* podman is, and when neither is it raises and the pinned engine stays as
\* it was.
C17_DockerThenPodman ==
    \A i \in DOMAIN selects :
        LET s      == selects[i]
            probes == ExesFrom(1, s.at)
        IN  /\ \A k \in CmdsAt(s.at) : cmds[k].op = "version"
            /\ "docker" \in avail =>
                  /\ probes = <<"docker">>
                  /\ s.ret = "docker" /\ s.after = "docker"
            /\ ("docker" \notin avail /\ "podman" \in avail) =>
                  /\ probes = <<"docker", "podman">>
                  /\ s.ret = "podman" /\ s.after = "podman"
            /\ avail = {} =>
                  /\ probes = <<"docker", "podman">>
                  /\ s.ret = "raise" /\ s.after = s.before

\* Two calls on a host with podman only: the first moves the pin from
\* docker to podman, the second finds it there and probes docker again.
C17_Witness ==
    /\ Len(selects) = 2
    /\ selects[1].ret = "podman"
    /\ selects[1].before = "docker" /\ selects[1].after = "podman"
    /\ selects[2].before = "podman" /\ selects[2].ret = "podman"

\* C18 as claimed: when a construction on the provisioning path returns
\* normally, the container it started is one created in this construction,
\* whatever container of that name was there before.
C18_StartedContainerIsNew ==
    \A i \in DOMAIN ctors :
        (OnProvisioningPath(i) /\ ctors[i].err = "none") =>
            \A k \in CmdsAt(ctors[i].at) :
                cmds[k].op = "start" =>
                    /\ container[cmds[k].exe].st = "running"
                    /\ container[cmds[k].exe].new

\* C19: a construction of instance 0 without the force flag that is told
\* the container exists issues the listing and one start command and no
\* remove, build or create command; every construction of instance 0 that
\* returns normally issued a start command as its last command.
C19_ExistingContainerOnlyStarted ==
    \A i \in DOMAIN ctors :
        LET ops == OpsFrom(1, ctors[i].at)
        IN  /\ (/\ ctors[i].id = 0
                /\ ~ctors[i].force
                /\ ctors[i].err \notin ValidationErrors
                /\ ~OnProvisioningPath(i)) =>
                  /\ ops = <<"ls", "start">>
                  /\ ctors[i].err = "none"
            /\ (ctors[i].id = 0 /\ ctors[i].err = "none") =>
                  /\ ops # <<>>
                  /\ ops[Len(ops)] = "start"
                  /\ Cardinality({k \in CmdsAt(ctors[i].at) :
                                     cmds[k].op = "start"}) = 1

\* A first construction that found the container running and started it.
C19_Witness ==
    /\ ctors # <<>>
    /\ ctors[1].id = 0 /\ ~ctors[1].force /\ ctors[1].err = "none"
    /\ OpsFrom(1, ctors[1].at) = <<"ls", "start">>


\* The analyse calls thread w made.
DispatchedBy(w) == {e \in BagToSet(dispatched) : e.worker = w}

\* C16: with samplers of pairwise distinct uids running sample() at the same
\* time, in every interleaving of their steps no run identifier is passed
\* to analyse twice, by the same sampler or by two of them; each sampler
\* counts its own dispatches only, and each identifier carries the uid of
\* the sampler that sent it.
C16_RunIdsUniqueAcrossWorkers ==
    /\ \A e \in BagToSet(dispatched) :
          /\ CopiesIn(e, dispatched) = 1
          /\ \A f \in BagToSet(dispatched) :
                e.run_id = f.run_id => e.worker = f.worker
    /\ \A w \in DOMAIN workers :
          /\ workers[w].generation_number =
                Cardinality(DispatchedBy(w)) +
                    (IF workers[w].pc = "analyse" THEN 1 ELSE 0)
          /\ \A e \in DispatchedBy(w) :
                \E g \in 0..(workers[w].generation_number - 1) :
                    IsRunId(e.run_id, workers[w].uid, g)

\* Two threads in sample(), each of which has passed one candidate to
\* analyse and is about to pass a second one.
C16_Witness ==
    /\ BagCardinality(dispatched) = 2
    /\ \A w \in Workers :
          /\ workers[w].generation_number = 2
          /\ workers[w].pc = "analyse"


\* C21: each execute call issues two container commands, the creation of
\* the log directory and then one driver invocation, both with the pinned
\* engine (run() adds its copy after them); the code it returns is the exit
\* status of the driver invocation, whether or not the mkdir command
\* failed.
C21_MkdirThenDriver ==
    \A i \in DOMAIN execs :
        LET at   == execs[i].at
            ops  == OpsFrom(1, at)
            mine == CmdsAt(at)
        IN  /\ Len(ops) >= 2
            /\ ops[1] = "mkdir" /\ ops[2] = "exec"
            /\ ops = IF \E j \in DOMAIN runs : runs[j].at = at
                       THEN <<"mkdir", "exec", "cp_out">>
                       ELSE <<"mkdir", "exec">>
            /\ \A k \in mine : cmds[k].exe = engine
            /\ \A k \in mine :
                  cmds[k].op = "exec" => (execs[i].ret = 0 <=> cmds[k].ok)

\* An execute call whose mkdir command failed and whose driver invocation
\* was issued all the same, followed by a second execute call.
C21_Witness ==
    /\ Len(execs) = 2 /\ runs = <<>>
    /\ \E k \in CmdsAt(execs[1].at) : cmds[k].op = "mkdir" /\ ~cmds[k].ok
    /\ \E k \in CmdsAt(execs[1].at) : cmds[k].op = "exec"
    /\ execs[1].ret # 0


\* C22 as claimed: a sample() call in which get_prompt, draw_samples and
\* every analyse call return completes without raising, for every batch
\* size, the empty batch included.
C22_CompletesForEveryBatch ==
    \A c \in DOMAIN samples :
        samples[c].err \notin {"get_prompt", "draw_samples", "analyse"} =>
            samples[c].err = "none"

\* C23 as claimed: every command of a construction other than the version
\* probes is run with an engine that is available on the host.
C23_CommandsUseProbedEngine ==
    \A i \in DOMAIN ctors :
        \A k \in CmdsAt(ctors[i].at) :
            cmds[k].op # "version" => cmds[k].exe \in avail


\* C24 as claimed: with threads constructing sandboxes at the same time, the
\* identifiers register_sandbox hands out are pairwise distinct, at most
\* one construction has identifier 0, and the provisioning commands all
\* belong to one construction.
C24_DistinctIdentifiers ==
    /\ \A i \in DOMAIN ctors : \A j \in DOMAIN ctors :
          i # j => ctors[i].id # ctors[j].id
    /\ Cardinality({i \in DOMAIN ctors : ctors[i].id = 0}) <= 1
    /\ \A k \in DOMAIN cmds : \A l \in DOMAIN cmds :
          (cmds[k].op \in ProvisioningOps /\ cmds[l].op \in ProvisioningOps)
              => cmds[k].at = cmds[l].at

\* The threads that have read the counter.
HaveRead == {t \in Threads : threads[t].pc # "read"}

\* C24, amended: as long as no thread has read the counter while another
\* thread was between its read and its increment, the identifiers the
\* threads hold are pairwise distinct, at most one of them is 0, and the
\* provisioning commands all belong to one construction, however the rest
\* of the constructions interleave.
C24_DistinctUnlessOverlapped ==
    (\A t \in Threads : ~threads[t].overlapped) =>
        /\ \A t \in HaveRead : \A u \in HaveRead :
              t # u => threads[t].sandbox_id # threads[u].sandbox_id
        /\ Cardinality({t \in HaveRead : threads[t].sandbox_id = 0}) <= 1
        /\ \A i \in DOMAIN ctors : \A j \in DOMAIN ctors :
              i # j => ctors[i].id # ctors[j].id
        /\ \A k \in DOMAIN cmds : \A l \in DOMAIN cmds :
              (cmds[k].op \in ProvisioningOps /\ cmds[l].op \in ProvisioningOps)
                  => cmds[k].at = cmds[l].at

\* Two threads constructed concurrently without overlapping in
\* register_sandbox: the thread with identifier 1 returned while the thread
\* with identifier 0 was still provisioning, which then built, created and
\* started the container.
C24_Witness ==
    /\ \A t \in Threads : threads[t].pc = "done" /\ ~threads[t].overlapped
    /\ Len(ctors) = 2
    /\ ctors[1].id = 1 /\ ctors[2].id = 0
    /\ ctors[1].err = "none" /\ ctors[2].err = "none"
    /\ OpsFrom(1, ctors[2].at) =
          <<"ls", "ls", "version", "build", "create", "start">>

=============================================================================
